---- MODULE Spec2Model ----
(***************************************************************************)
(* CSP solver family of the repository (map colouring):                    *)
(*   18  backtracking                    (recursive, pure backtracking)    *)
(*   19  forward_checking / podar_dominios                                 *)
(*   20  revisar_arco / ac3 / backtracking_con_propagacion                 *)
(*   21  backjumping                     (iterative, conflict sets)        *)
(* The recursive searches are operators computed as the code computes      *)
(* them; backjumping and ac3 are loops and are modelled step by step.      *)
(***************************************************************************)
EXTENDS Integers, Sequences, FiniteSets, TLC

\* ------------------------------------------------------------------------
\* Bounds of the generated instances
\* ------------------------------------------------------------------------
NVars == 4
NVals == 2
MaxDomLen == 2
MaxIntento == 4
NVarsAC3 == 3
NVarsFC == 3
MaxIterMC == 2
NNodos == 4
MaxLimite == 3
NVarsCorte == 3
MaxCorte == 3
NVarsBT == 3

\* ------------------------------------------------------------------------
\* The CSP of the scripts (files 18-21, module level)
\* ------------------------------------------------------------------------
variables == <<"WA", "NT", "SA", "Q", "NSW", "V", "T">>

Colores == <<"ROJO", "VERDE", "AZUL">>

dominio_base == [v \in {variables[i] : i \in 1..Len(variables)} |-> Colores]

adyacentes_australia ==
    [v \in {variables[i] : i \in 1..Len(variables)} |->
        CASE v = "WA"  -> <<"NT", "SA">>
          [] v = "NT"  -> <<"WA", "SA", "Q">>
          [] v = "SA"  -> <<"WA", "NT", "Q", "NSW", "V">>
          [] v = "Q"   -> <<"NT", "SA", "NSW">>
          [] v = "NSW" -> <<"SA", "Q", "V">>
          [] v = "V"   -> <<"SA", "NSW", "T">>
          [] v = "T"   -> <<"V">>]

VARIABLES
    orden_vars,          \* the variable order given to the solver
    adyacentes,          \* module-level adjacency table: var -> list of vars
    dominios_ini,        \* the domains given to the solver: var -> list
    algoritmo,           \* which solver this run executes
    pc,                  \* "inicio", "bucle", "hecho"
    resultado,           \* [ok, asig]: ok = FALSE is Python's None
    asignacion_parcial,  \* backjumping: dict var -> value
    conflict_set,        \* backjumping: var -> set of vars
    intento_valor_idx,   \* backjumping: var -> index (0-based) of next value
    idx_actual,          \* backjumping: index (0-based) of current variable
    cola,                \* ac3: queue of arcs <<xi, xj>>
    dominios,            \* ac3: the domains it prunes in place
    ronda,               \* ac3: 1 = first call, 2 = the call repeated
    dom_previo,          \* ac3: domains at the end of the first call
    listas,              \* heap: the list objects, address = position
    dicts,               \* heap: the dict objects var -> address of a list
    pila,                \* call stack of the recursive search run step by step
    llamada,             \* the last call of a function and its return
    asignacion_mc,       \* min_conflicts: the complete assignment being repaired
    mejor_global,        \* min_conflicts: copy of the best assignment recorded
    mejor_global_conf,   \* min_conflicts: its number of conflicts
    iter_idx,            \* min_conflicts: iterations done
    MAX_ITER,            \* min_conflicts: its argument
    menor_conf_vista,    \* the fewest conflicts of any assignment the search held
    graph,               \* iterative deepening: adjacency dict node -> list
    start,               \* iterative deepening: start node
    goal,                \* iterative deepening: goal node
    L_max,               \* iterative deepening: largest limit tried
    inicio,              \* a_estrella: start node
    meta,                \* a_estrella: goal node
    g,                   \* a_estrella: cost so far, node -> number
    padres,              \* a_estrella: node -> parent ("" is None)
    frontera,            \* a_estrella: the heap, a bag of <<f, node>>
    cerrados,            \* a_estrella: expanded nodes
    cutset               \* cutset_conditioning: its argument

vars == <<orden_vars, adyacentes, dominios_ini, algoritmo, pc, resultado,
          asignacion_parcial, conflict_set, intento_valor_idx, idx_actual,
          cola, dominios, ronda, dom_previo, listas, dicts, pila, llamada,
          asignacion_mc, mejor_global, mejor_global_conf, iter_idx, MAX_ITER,
          menor_conf_vista, graph, start, goal, L_max,
          inicio, meta, g, padres, frontera, cerrados, cutset>>

\* ------------------------------------------------------------------------
\* Helpers for Python values
\* ------------------------------------------------------------------------
Rango(s) == {s[i] : i \in 1..Len(s)}

AsigVacia == [v \in {} |-> "ROJO"]

None == [ok |-> FALSE, asig |-> AsigVacia]

Algun(a) == [ok |-> TRUE, asig |-> a]

\* d[var] = valor on a dict
Poner(a, var, valor) ==
    [v \in (DOMAIN a) \cup {var} |-> IF v = var THEN valor ELSE a[v]]

\* del d[var] for every var of s that is in the dict
Quitar(a, s) == [v \in (DOMAIN a) \ s |-> a[v]]

\* list.index(v), 0-based
Indice(s, v) == (CHOOSE i \in 1..Len(s) : s[i] = v /\ \A j \in 1..(i-1) : s[j] # v) - 1

Maximo(S) == CHOOSE m \in S : \A x \in S : x <= m

\* the element of a one-element set: {e(x) : x \in {v}} binds x to the value
\* of v, so that a call result used several times is computed once
Unico(S) == CHOOSE x \in S : TRUE

\* ------------------------------------------------------------------------
\* Constraint model and consistency check (identical in files 18-21)
\* ------------------------------------------------------------------------
\* faulty variant: the comparison of the two values is inverted
no_conflicto_binario_invertido(var_a, val_a, var_b, val_b) ==
    IF var_a \notin DOMAIN adyacentes \/ var_b \notin Rango(adyacentes[var_a])
    THEN TRUE
    ELSE val_a = val_b

no_conflicto_binario(var_a, val_a, var_b, val_b) ==
    IF var_a \notin DOMAIN adyacentes \/ var_b \notin Rango(adyacentes[var_a])
    THEN TRUE
    ELSE val_a # val_b

es_consistente_con_asignacion(actual_asignacion, var, valor) ==
    \A otra_var \in DOMAIN actual_asignacion :
        no_conflicto_binario(var, valor, otra_var, actual_asignacion[otra_var])

\* faulty variant: the conflicts are collected but the value is accepted anyway
es_consistente_con_parcial_laxo(asignacion, var, valor) ==
    LET conflictos == {otra_var \in DOMAIN asignacion :
            ~no_conflicto_binario(var, valor, otra_var, asignacion[otra_var])}
    IN  <<Cardinality(conflictos) >= 0, conflictos>>

\* file 21: (consistent?, set of directly conflicting variables)
es_consistente_con_parcial(asignacion, var, valor) ==
    LET conflictos == {otra_var \in DOMAIN asignacion :
            ~no_conflicto_binario(var, valor, otra_var, asignacion[otra_var])}
    IN  <<conflictos = {}, conflictos>>

\* ------------------------------------------------------------------------
\* File 18: backtracking
\* ------------------------------------------------------------------------
RECURSIVE backtracking(_, _, _)
RECURSIVE backtracking_valores(_, _, _, _, _)

\* faulty variant: the result of the recursive call is returned even when it is None
backtracking_valores_sin_retroceso(asignacion, variables_orden, doms, var_actual, k) ==
    IF k > Len(doms[var_actual]) THEN None
    ELSE LET valor == doms[var_actual][k] IN
         IF es_consistente_con_asignacion(asignacion, var_actual, valor)
         THEN backtracking(Poner(asignacion, var_actual, valor), variables_orden, doms)
         ELSE backtracking_valores(asignacion, variables_orden, doms,
                                   var_actual, k + 1)

\* the for loop of backtracking from the k-th value (1-based) of var_actual
backtracking_valores(asignacion, variables_orden, doms, var_actual, k) ==
    IF k > Len(doms[var_actual]) THEN None
    ELSE LET valor == doms[var_actual][k] IN
         IF es_consistente_con_asignacion(asignacion, var_actual, valor)
         THEN Unico({IF r.ok THEN r
                     ELSE backtracking_valores(asignacion, variables_orden, doms,
                                               var_actual, k + 1) :
                     r \in {backtracking(Poner(asignacion, var_actual, valor),
                                         variables_orden, doms)}})
         ELSE backtracking_valores(asignacion, variables_orden, doms,
                                   var_actual, k + 1)

backtracking(asignacion, variables_orden, doms) ==
    IF Cardinality(DOMAIN asignacion) = Len(variables_orden)
    THEN Algun(asignacion)
    ELSE backtracking_valores(asignacion, variables_orden, doms,
            variables_orden[Cardinality(DOMAIN asignacion) + 1], 1)

\* ------------------------------------------------------------------------
\* File 19: forward checking
\* ------------------------------------------------------------------------
NoneDominios == [ok |-> FALSE, doms |-> [v \in {} |-> <<>>]]

RECURSIVE podar_vecinos(_, _, _, _, _)

\* the for loop of podar_dominios from the k-th neighbour of var_actual
podar_vecinos(nuevos_dominios, asignacion, var_actual, valor_actual, k) ==
    IF k > Len(adyacentes[var_actual]) THEN [ok |-> TRUE, doms |-> nuevos_dominios]
    ELSE LET vecino == adyacentes[var_actual][k] IN
         IF vecino \in DOMAIN asignacion
         THEN podar_vecinos(nuevos_dominios, asignacion, var_actual, valor_actual, k + 1)
         ELSE Unico({
                IF Len(dominio_filtrado) = 0 THEN NoneDominios
                ELSE podar_vecinos([nuevos_dominios EXCEPT ![vecino] = dominio_filtrado],
                                   asignacion, var_actual, valor_actual, k + 1) :
                dominio_filtrado \in
                    {SelectSeq(nuevos_dominios[vecino],
                               LAMBDA val_vecino :
                                   no_conflicto_binario(var_actual, valor_actual,
                                                        vecino, val_vecino))}})

podar_dominios(doms, asignacion, var_actual, valor_actual) ==
    podar_vecinos([doms EXCEPT ![var_actual] = <<valor_actual>>],
                  asignacion, var_actual, valor_actual, 1)

RECURSIVE forward_checking(_, _, _)
RECURSIVE forward_checking_valores(_, _, _, _, _)

\* faulty variant: a failed forward check ends the loop of the call
forward_checking_valores_sin_seguir(asignacion, orden, doms, var_actual, k) ==
    IF k > Len(doms[var_actual]) THEN None
    ELSE LET valor == doms[var_actual][k]
             sigue == forward_checking_valores(asignacion, orden, doms, var_actual, k + 1)
         IN
         IF ~es_consistente_con_asignacion(asignacion, var_actual, valor) THEN sigue
         ELSE Unico({
                IF ~dominios_podados.ok THEN None
                ELSE Unico({IF r.ok THEN r ELSE sigue :
                            r \in {forward_checking(Poner(asignacion, var_actual, valor),
                                                    orden, dominios_podados.doms)}}) :
                dominios_podados \in {podar_dominios(doms,
                                          Poner(asignacion, var_actual, valor),
                                          var_actual, valor)}})

forward_checking_valores(asignacion, orden, doms, var_actual, k) ==
    IF k > Len(doms[var_actual]) THEN None
    ELSE LET valor == doms[var_actual][k]
             sigue == forward_checking_valores(asignacion, orden, doms, var_actual, k + 1)
         IN
         IF ~es_consistente_con_asignacion(asignacion, var_actual, valor) THEN sigue
         ELSE Unico({
                IF ~dominios_podados.ok THEN sigue
                ELSE Unico({IF r.ok THEN r ELSE sigue :
                            r \in {forward_checking(Poner(asignacion, var_actual, valor),
                                                    orden, dominios_podados.doms)}}) :
                dominios_podados \in {podar_dominios(doms,
                                          Poner(asignacion, var_actual, valor),
                                          var_actual, valor)}})

forward_checking(asignacion, orden, doms) ==
    IF Cardinality(DOMAIN asignacion) = Len(orden)
    THEN Algun(asignacion)
    ELSE forward_checking_valores(asignacion, orden, doms,
            orden[Cardinality(DOMAIN asignacion) + 1], 1)

\* ------------------------------------------------------------------------
\* File 20: AC-3 and the search that propagates with it
\* ------------------------------------------------------------------------
\* the module's variable list restricted to the problem at hand
variables_problema == SelectSeq(variables, LAMBDA v : v \in DOMAIN adyacentes)

\* faulty variant: the values that do have a support are the ones removed
revisar_arco_invertido(xi, xj, doms) ==
    LET queda == SelectSeq(doms[xi],
                    LAMBDA v : ~\E k \in 1..Len(doms[xj]) :
                                   no_conflicto_binario(xi, v, xj, doms[xj][k]))
    IN  <<Len(queda) # Len(doms[xi]), [doms EXCEPT ![xi] = queda]>>

\* faulty variant: the loop stops after the first value it removes
revisar_arco_una_poda(xi, xj, doms) ==
    LET sin_apoyo == {n \in 1..Len(doms[xi]) :
                         ~\E k \in 1..Len(doms[xj]) :
                             no_conflicto_binario(xi, doms[xi][n], xj, doms[xj][k])}
    IN  IF sin_apoyo = {} THEN <<FALSE, doms>>
        ELSE LET n == CHOOSE m \in sin_apoyo : \A o \in sin_apoyo : m <= o
             IN  <<TRUE, [doms EXCEPT ![xi] = SubSeq(@, 1, n - 1) \o SubSeq(@, n + 1, Len(@))]>>

\* faulty variant: a value is kept only if every value of xj is compatible
revisar_arco_todos(xi, xj, doms) ==
    LET queda == SelectSeq(doms[xi],
                    LAMBDA v : \A k \in 1..Len(doms[xj]) :
                                   no_conflicto_binario(xi, v, xj, doms[xj][k]))
    IN  <<Len(queda) # Len(doms[xi]), [doms EXCEPT ![xi] = queda]>>

\* Revise(xi, xj): <<cambiado, dominios after the in-place removals>>
revisar_arco(xi, xj, doms) ==
    LET queda == SelectSeq(doms[xi],
                    LAMBDA v : \E k \in 1..Len(doms[xj]) :
                                   no_conflicto_binario(xi, v, xj, doms[xj][k]))
    IN  <<Len(queda) # Len(doms[xi]), [doms EXCEPT ![xi] = queda]>>

RECURSIVE arcos_de(_, _)
\* [(xi, xj) for xj in adyacentes[xi]] for the variables of vs from the i-th
arcos_de(vs, i) ==
    IF i > Len(vs) THEN <<>>
    ELSE [k \in 1..Len(adyacentes[vs[i]]) |-> <<vs[i], adyacentes[vs[i]][k]>>]
         \o arcos_de(vs, i + 1)

cola_inicial == arcos_de(variables_problema, 1)

\* faulty variant: the arcs are appended in the wrong direction, (xi, xk)
arcos_a_revisar_al_reves(xi, xj) ==
    LET vecinos == SelectSeq(adyacentes[xi], LAMBDA xk : xk # xj)
    IN  [k \in 1..Len(vecinos) |-> <<xi, vecinos[k]>>]

\* faulty variant: nothing is appended after a pruning
arcos_a_revisar_ninguno(xi, xj) == <<>>

\* faulty variant: the arc from xj is appended too
arcos_a_revisar_con_xj(xi, xj) ==
    [k \in 1..Len(adyacentes[xi]) |-> <<adyacentes[xi][k], xi>>]

\* arcs (xk, xi) appended after xi was pruned through (xi, xj)
arcos_a_revisar(xi, xj) ==
    LET vecinos == SelectSeq(adyacentes[xi], LAMBDA xk : xk # xj)
    IN  [k \in 1..Len(vecinos) |-> <<vecinos[k], xi>>]

\* faulty variant: an emptied domain does not stop the loop
ac3_paso_sin_fallo(q, doms, i) ==
    LET xi == q[i][1]
        xj == q[i][2]
        resto == SubSeq(q, 1, i - 1) \o SubSeq(q, i + 1, Len(q))
    IN  Unico({
          IF rev[1]
          THEN [falla |-> FALSE, cola |-> resto \o arcos_a_revisar(xi, xj),
                doms |-> rev[2]]
          ELSE [falla |-> FALSE, cola |-> resto, doms |-> doms] :
          rev \in {revisar_arco(xi, xj, doms)}})

\* one iteration of the while loop of ac3, taking the arc at position i of
\* the queue (popleft is i = 1); falla = the `return False`
ac3_paso(q, doms, i) ==
    LET xi == q[i][1]
        xj == q[i][2]
        resto == SubSeq(q, 1, i - 1) \o SubSeq(q, i + 1, Len(q))
    IN  Unico({
          IF rev[1]
          THEN IF Len(rev[2][xi]) = 0
               THEN [falla |-> TRUE, cola |-> resto, doms |-> rev[2]]
               ELSE [falla |-> FALSE, cola |-> resto \o arcos_a_revisar(xi, xj),
                     doms |-> rev[2]]
          ELSE [falla |-> FALSE, cola |-> resto, doms |-> doms] :
          rev \in {revisar_arco(xi, xj, doms)}})

RECURSIVE ac3_bucle(_, _)
ac3_bucle(q, doms) ==
    IF Len(q) = 0 THEN [ok |-> TRUE, doms |-> doms]
    ELSE Unico({IF p.falla THEN [ok |-> FALSE, doms |-> p.doms]
                ELSE ac3_bucle(p.cola, p.doms) :
                p \in {ac3_paso(q, doms, 1)}})

ac3(doms) == ac3_bucle(cola_inicial, doms)

\* same body as podar_dominios of file 19
podar_dominios_forward(doms, asignacion, var_actual, valor_actual) ==
    podar_vecinos([doms EXCEPT ![var_actual] = <<valor_actual>>],
                  asignacion, var_actual, valor_actual, 1)

RECURSIVE backtracking_con_propagacion(_, _, _)
RECURSIVE propagacion_valores(_, _, _, _, _)

propagacion_valores(asignacion, orden, doms, var_actual, k) ==
    IF k > Len(doms[var_actual]) THEN None
    ELSE LET valor == doms[var_actual][k]
             sigue == propagacion_valores(asignacion, orden, doms, var_actual, k + 1)
         IN
         IF ~es_consistente_con_asignacion(asignacion, var_actual, valor) THEN sigue
         ELSE Unico({
                IF ~dominios_fc.ok THEN sigue
                ELSE Unico({
                       IF ~dominios_prop.ok THEN sigue
                       ELSE Unico({IF r.ok THEN r ELSE sigue :
                                   r \in {backtracking_con_propagacion(
                                              Poner(asignacion, var_actual, valor),
                                              orden, dominios_prop.doms)}}) :
                       dominios_prop \in {ac3(dominios_fc.doms)}}) :
                dominios_fc \in {podar_dominios_forward(doms,
                                     Poner(asignacion, var_actual, valor),
                                     var_actual, valor)}})

backtracking_con_propagacion(asignacion, orden, doms) ==
    IF Cardinality(DOMAIN asignacion) = Len(orden)
    THEN Algun(asignacion)
    ELSE propagacion_valores(asignacion, orden, doms,
            orden[Cardinality(DOMAIN asignacion) + 1], 1)

\* ------------------------------------------------------------------------
\* Files 19 and 20 on a heap: the domain tables are dict objects whose
\* entries are list objects, so that a copy and an alias differ
\* ------------------------------------------------------------------------
Memoria == [listas |-> listas, dicts |-> dicts]

\* the keys of a domain table, in insertion order
claves == variables_problema

\* the dict at address d read as a value: var -> list of colours
Valor(m, d) == [v \in DOMAIN m.dicts[d] |-> m.listas[m.dicts[d][v]]]

\* a new list object: <<heap, address>>
nueva_lista(m, contenido) ==
    <<[m EXCEPT !.listas = Append(@, contenido)], Len(m.listas) + 1>>

\* d[var] = the list at address a
asignar_entrada(m, d, var, a) == [m EXCEPT !.dicts[d][var] = a]

\* {var: [...] for var in variables}: a new dict of new lists
crear_tabla(m, tabla) ==
    <<[listas |-> m.listas \o [i \in 1..Len(claves) |-> tabla[claves[i]]],
       dicts |-> Append(m.dicts,
                        [v \in Rango(claves) |-> Len(m.listas) + Indice(claves, v) + 1])],
      Len(m.dicts) + 1>>

\* faulty variant: the table is used as it is, without copying it
sin_copia(m, d) == <<m, d>>

\* copy.deepcopy(d): a new dict whose lists are new objects (a list reached
\* through two keys is copied once)
deepcopy(m, d) ==
    LET primero(v) == CHOOSE j \in 1..Len(claves) :
                          /\ m.dicts[d][claves[j]] = m.dicts[d][v]
                          /\ \A h \in 1..(j - 1) : m.dicts[d][claves[h]] # m.dicts[d][v]
    IN  <<[listas |-> m.listas \o
                      [i \in 1..Len(claves) |-> m.listas[m.dicts[d][claves[i]]]],
           dicts |-> Append(m.dicts,
                            [v \in DOMAIN m.dicts[d] |-> Len(m.listas) + primero(v)])],
          Len(m.dicts) + 1>>

\* faulty variant: the neighbour's initial domain is filtered, not its current one
filtrar_vecino_desde_inicial(m, nd, var_actual, valor_actual, vecino) ==
    SelectSeq(dominios_ini[vecino],
              LAMBDA val_vecino :
                  no_conflicto_binario(var_actual, valor_actual, vecino, val_vecino))

\* dominio_filtrado: the values of the neighbour compatible with the assignment
filtrar_vecino(m, nd, var_actual, valor_actual, vecino) ==
    SelectSeq(m.listas[m.dicts[nd][vecino]],
              LAMBDA val_vecino :
                  no_conflicto_binario(var_actual, valor_actual, vecino, val_vecino))

RECURSIVE podar_vecinos_mem(_, _, _, _, _, _)
RECURSIVE podar_vecinos_mem_sin_fallo(_, _, _, _, _, _)

\* faulty variant: an emptied domain is stored like any other
podar_vecinos_mem_sin_fallo(m, nd, asignacion, var_actual, valor_actual, k) ==
    IF k > Len(adyacentes[var_actual]) THEN [ok |-> TRUE, m |-> m, d |-> nd]
    ELSE LET vecino == adyacentes[var_actual][k] IN
         IF vecino \in DOMAIN asignacion
         THEN podar_vecinos_mem_sin_fallo(m, nd, asignacion, var_actual, valor_actual, k + 1)
         ELSE Unico({
                podar_vecinos_mem_sin_fallo(asignar_entrada(f[1], nd, vecino, f[2]), nd,
                                            asignacion, var_actual, valor_actual, k + 1) :
                f \in {nueva_lista(m, filtrar_vecino(m, nd, var_actual,
                                                     valor_actual, vecino))}})

\* the for loop of podar_dominios / podar_dominios_forward on the copy at nd,
\* from the k-th neighbour: [ok, heap, address of the returned table]
podar_vecinos_mem(m, nd, asignacion, var_actual, valor_actual, k) ==
    IF k > Len(adyacentes[var_actual]) THEN [ok |-> TRUE, m |-> m, d |-> nd]
    ELSE LET vecino == adyacentes[var_actual][k] IN
         IF vecino \in DOMAIN asignacion
         THEN podar_vecinos_mem(m, nd, asignacion, var_actual, valor_actual, k + 1)
         ELSE Unico({
                IF Len(f[1].listas[f[2]]) = 0 THEN [ok |-> FALSE, m |-> f[1], d |-> 0]
                ELSE podar_vecinos_mem(asignar_entrada(f[1], nd, vecino, f[2]), nd,
                                       asignacion, var_actual, valor_actual, k + 1) :
                f \in {nueva_lista(m, filtrar_vecino(m, nd, var_actual,
                                                     valor_actual, vecino))}})

\* podar_dominios (file 19) and podar_dominios_forward (file 20) on the table
\* at address d
podar_dominios_mem(m, d, asignacion, var_actual, valor_actual) ==
    Unico({Unico({podar_vecinos_mem(asignar_entrada(l[1], c[2], var_actual, l[2]),
                                    c[2], asignacion, var_actual, valor_actual, 1) :
                  l \in {nueva_lista(c[1], <<valor_actual>>)}}) :
           c \in {deepcopy(m, d)}})

\* ac3 on the table at address d: revisar_arco removes from the lists in place
ac3_mem(m, d) ==
    Unico({[ok |-> r.ok,
            m |-> [m EXCEPT !.listas =
                      [a \in DOMAIN m.listas |->
                          IF \E v \in DOMAIN m.dicts[d] : m.dicts[d][v] = a
                          THEN r.doms[CHOOSE v \in DOMAIN m.dicts[d] : m.dicts[d][v] = a]
                          ELSE m.listas[a]]]] :
           r \in {ac3(Valor(m, d))}})

\* ------------------------------------------------------------------------
\* The instances the solvers are run on
\* ------------------------------------------------------------------------
Nombres(n) == SubSeq(variables, 1, n)

\* undirected edges over the first n variables, as pairs of positions
Aristas(n) == {p \in (1..n) \X (1..n) : p[1] < p[2]}

\* the symmetric adjacency table of an edge set, lists in the module's order
TablaAdyacencia(n, E) ==
    [v \in Rango(Nombres(n)) |->
        SelectSeq(Nombres(n),
                  LAMBDA u : \E p \in E : {variables[p[1]], variables[p[2]]} = {u, v} /\ u # v)]

\* lists of distinct colours, at most MaxDomLen long, of the first NVals colours
ListasDeColores ==
    {l \in UNION {[1..k -> Rango(SubSeq(Colores, 1, NVals))] : k \in 0..MaxDomLen} :
        \A i, j \in 1..Len(l) : i # j => l[i] # l[j]}

EsAustralia ==
    /\ orden_vars = variables
    /\ adyacentes = adyacentes_australia
    /\ dominios_ini = dominio_base

Buscadores == {"backtracking", "forward_checking",
               "backtracking_con_propagacion", "backjumping"}

\* three mutually adjacent variables sharing one 2-colour domain
EsTriangulo ==
    /\ Len(orden_vars) = 3
    /\ \A v \in Rango(orden_vars) :
          /\ Rango(adyacentes[v]) = Rango(orden_vars) \ {v}
          /\ dominios_ini[v] = SubSeq(Colores, 1, 2)

InstanciaInicial(n) ==
    \/ /\ orden_vars = Nombres(n)
       /\ \E E \in SUBSET Aristas(n) : adyacentes = TablaAdyacencia(n, E)
       /\ dominios_ini \in [Rango(Nombres(n)) -> ListasDeColores]
    \/ EsAustralia

noMC == <<asignacion_mc, mejor_global, mejor_global_conf, iter_idx, MAX_ITER,
          menor_conf_vista>>
noIDS == <<graph, start, goal, L_max>>
noAE == <<inicio, meta, g, padres, frontera, cerrados>>
noCorte == <<cutset>>
ajenos == <<noMC, noIDS, noAE, noCorte>>

\* the programs that are not running hold nothing
SinMC ==
    /\ asignacion_mc = AsigVacia
    /\ mejor_global = AsigVacia
    /\ mejor_global_conf = 0
    /\ iter_idx = 0
    /\ MAX_ITER = 0
    /\ menor_conf_vista = 0

SinIDS ==
    /\ graph = [n \in {} |-> <<>>]
    /\ start = ""
    /\ goal = ""
    /\ L_max = 0

SinAE ==
    /\ inicio = ""
    /\ meta = ""
    /\ g = [n \in {} |-> 0]
    /\ padres = [n \in {} |-> ""]
    /\ frontera = {}
    /\ cerrados = {}

SinCorte == cutset = <<>>

EstadoCSP ==
    /\ pc = "inicio"
    /\ resultado = None
    /\ asignacion_parcial = AsigVacia
    /\ conflict_set = [v \in {} |-> {}]
    /\ intento_valor_idx = [v \in {} |-> 0]
    /\ idx_actual = 0
    /\ cola = <<>>
    /\ dominios = dominios_ini
    /\ ronda = 1
    /\ dom_previo = dominios_ini
    /\ listas = <<>>
    /\ dicts = <<>>
    /\ pila = <<>>
    /\ llamada = [f |-> "ninguna"]

EstadoInicial == EstadoCSP /\ SinMC /\ SinIDS /\ SinAE /\ SinCorte

Init ==
    /\ InstanciaInicial(NVars)
    /\ algoritmo \in Buscadores
    /\ EstadoInicial

\* ------------------------------------------------------------------------
\* The recursive searches, called as the __main__ blocks call them
\* ------------------------------------------------------------------------
noBJ == <<asignacion_parcial, conflict_set, intento_valor_idx, idx_actual>>
noAC3 == <<cola, dominios, ronda, dom_previo>>
instancia == <<orden_vars, adyacentes, dominios_ini, algoritmo>>
noFC == <<listas, dicts, pila, llamada>>

Backtracking ==
    /\ pc = "inicio" /\ algoritmo = "backtracking"
    /\ resultado' = backtracking(AsigVacia, orden_vars, dominios_ini)
    /\ pc' = "hecho"
    /\ UNCHANGED <<instancia, ajenos, noFC, noBJ, noAC3>>

ForwardChecking ==
    /\ pc = "inicio" /\ algoritmo = "forward_checking"
    /\ resultado' = forward_checking(AsigVacia, orden_vars, dominios_ini)
    /\ pc' = "hecho"
    /\ UNCHANGED <<instancia, ajenos, noFC, noBJ, noAC3>>

BacktrackingConPropagacion ==
    /\ pc = "inicio" /\ algoritmo = "backtracking_con_propagacion"
    /\ resultado' = backtracking_con_propagacion(AsigVacia, orden_vars, dominios_ini)
    /\ pc' = "hecho"
    /\ UNCHANGED <<instancia, ajenos, noFC, noBJ, noAC3>>

\* ------------------------------------------------------------------------
\* File 21: backjumping, one action per step of its loops
\* ------------------------------------------------------------------------
\* lines 123-134: the state built before the main loop
BJ_Inicio ==
    /\ pc = "inicio" /\ algoritmo = "backjumping"
    /\ asignacion_parcial' = AsigVacia
    /\ conflict_set' = [v \in Rango(orden_vars) |-> {}]
    /\ intento_valor_idx' = [v \in Rango(orden_vars) |-> 0]
    /\ idx_actual' = 0
    /\ pc' = "bucle"
    /\ UNCHANGED <<instancia, ajenos, noFC, resultado, noAC3>>

\* lines 139-141
BJ_SinSolucion ==
    /\ pc = "bucle" /\ algoritmo = "backjumping"
    /\ idx_actual < 0
    /\ resultado' = None
    /\ pc' = "hecho"
    /\ UNCHANGED <<instancia, ajenos, noFC, noBJ, noAC3>>

\* lines 144-147
BJ_Exito ==
    /\ pc = "bucle" /\ algoritmo = "backjumping"
    /\ idx_actual = Len(orden_vars)
    /\ resultado' = Algun(asignacion_parcial)
    /\ pc' = "hecho"
    /\ UNCHANGED <<instancia, ajenos, noFC, noBJ, noAC3>>

var_actual == orden_vars[idx_actual + 1]

EnVariable ==
    /\ pc = "bucle" /\ algoritmo = "backjumping"
    /\ idx_actual >= 0 /\ idx_actual < Len(orden_vars)

\* lines 160-195: one iteration of the inner while; a consistent value is
\* assigned and the search advances, a conflicting one is recorded
BJ_Probar ==
    /\ EnVariable
    /\ intento_valor_idx[var_actual] < Len(dominios_ini[var_actual])
    /\ LET valor == dominios_ini[var_actual][intento_valor_idx[var_actual] + 1]
           c == es_consistente_con_parcial(asignacion_parcial, var_actual, valor)
       IN  IF c[1]
           THEN /\ asignacion_parcial' = Poner(asignacion_parcial, var_actual, valor)
                /\ intento_valor_idx' =
                       IF idx_actual + 1 < Len(orden_vars)
                       THEN [intento_valor_idx EXCEPT ![orden_vars[idx_actual + 2]] = 0]
                       ELSE intento_valor_idx
                /\ idx_actual' = idx_actual + 1
                /\ UNCHANGED conflict_set
           ELSE /\ conflict_set' = [conflict_set EXCEPT ![var_actual] = @ \cup c[2]]
                /\ intento_valor_idx' = [intento_valor_idx EXCEPT ![var_actual] = @ + 1]
                /\ UNCHANGED <<asignacion_parcial, idx_actual>>
    /\ UNCHANGED <<instancia, ajenos, noFC, pc, resultado, noAC3>>

\* lines 206-220: where to jump when var_actual has no value left
salto_idx ==
    IF conflict_set[var_actual] = {} THEN idx_actual - 1
    ELSE LET indices_conflictivos ==
                 {Indice(orden_vars, v) : v \in conflict_set[var_actual] \cap Rango(orden_vars)}
         IN  IF indices_conflictivos = {} THEN idx_actual - 1
             ELSE Maximo(indices_conflictivos)

\* lines 197-260: the jump
BJ_Salto ==
    /\ EnVariable
    /\ intento_valor_idx[var_actual] >= Len(dominios_ini[var_actual])
    /\ LET salto == salto_idx
           desde == {orden_vars[i + 1] : i \in idx_actual..(Len(orden_vars) - 1)}
           limpiar == {orden_vars[i + 1] : i \in (idx_actual..(Len(orden_vars) - 1)) \ {salto}}
           heredado == IF conflict_set[var_actual] # {} /\ salto >= 0
                       THEN [conflict_set EXCEPT ![orden_vars[salto + 1]] =
                                                    @ \cup conflict_set[var_actual]]
                       ELSE conflict_set
           reiniciado == [v \in DOMAIN intento_valor_idx |->
                             IF v \in limpiar THEN 0 ELSE intento_valor_idx[v]]
       IN  /\ salto >= 0 => intento_valor_idx[orden_vars[salto + 1]] < MaxIntento
           /\ asignacion_parcial' = Quitar(asignacion_parcial, desde)
           /\ conflict_set' = [v \in DOMAIN heredado |->
                                  IF v \in limpiar THEN {} ELSE heredado[v]]
           /\ intento_valor_idx' =
                  IF salto >= 0
                  THEN [reiniciado EXCEPT ![orden_vars[salto + 1]] = @ + 1]
                  ELSE reiniciado
           /\ idx_actual' = salto
    /\ UNCHANGED <<instancia, ajenos, noFC, pc, resultado, noAC3>>

Next ==
    \/ Backtracking
    \/ ForwardChecking
    \/ BacktrackingConPropagacion
    \/ BJ_Inicio
    \/ BJ_Probar
    \/ BJ_Salto
    \/ BJ_SinSolucion
    \/ BJ_Exito

Spec == Init /\ [][Next]_vars

\* The solvers are sequential programs: a step that can be taken is taken.
InitJusta ==
    /\ InstanciaInicial(NVars - 1)
    /\ algoritmo \in Buscadores
    /\ EstadoInicial

SpecJusta == InitJusta /\ [][Next]_vars /\ WF_vars(Next)

\* ------------------------------------------------------------------------
\* File 20: ac3 step by step, called on a domain table and called again
\* ------------------------------------------------------------------------
InitAC3 ==
    /\ \/ InstanciaInicial(NVarsAC3) /\ algoritmo = "ac3"
       \/ InstanciaInicial(NVarsAC3) /\ ~EsAustralia /\ algoritmo = "ac3_orden_libre"
    /\ EstadoInicial

\* lines 148-155: the queue of all directed arcs
AC3_Inicio ==
    /\ pc = "inicio" /\ algoritmo \in {"ac3", "ac3_orden_libre"}
    /\ cola' = cola_inicial
    /\ pc' = "bucle"
    /\ UNCHANGED <<instancia, ajenos, noFC, resultado, noBJ, dominios, ronda, dom_previo>>

\* one iteration of the while loop on the arc at position i of the queue
AC3_Iteracion(i) ==
    LET p == ac3_paso(cola, dominios, i)
    IN  /\ cola' = p.cola
        /\ dominios' = p.doms
        /\ IF p.falla
           THEN pc' = "hecho" /\ resultado' = None
           ELSE UNCHANGED <<pc, resultado>>
        /\ UNCHANGED <<instancia, ajenos, noFC, noBJ, ronda, dom_previo>>

\* lines 157-175 as written: popleft
AC3_Paso ==
    /\ pc = "bucle" /\ algoritmo = "ac3"
    /\ Len(cola) > 0
    /\ AC3_Iteracion(1)

\* the same loop taking the arcs in any order
AC3_PasoLibre ==
    /\ pc = "bucle" /\ algoritmo = "ac3_orden_libre"
    /\ \E i \in 1..Len(cola) : AC3_Iteracion(i)

\* line 177: the queue is empty
AC3_Fin ==
    /\ pc = "bucle" /\ algoritmo \in {"ac3", "ac3_orden_libre"}
    /\ Len(cola) = 0
    /\ resultado' = Algun(AsigVacia)
    /\ pc' = "hecho"
    /\ UNCHANGED <<instancia, ajenos, noFC, noBJ, cola, dominios, ronda, dom_previo>>

\* the caller runs ac3 a second time on the table the first call left
AC3_Repetir ==
    /\ pc = "hecho" /\ algoritmo \in {"ac3", "ac3_orden_libre"}
    /\ ronda = 1 /\ resultado.ok
    /\ ronda' = 2
    /\ dom_previo' = dominios
    /\ resultado' = None
    /\ pc' = "inicio"
    /\ UNCHANGED <<instancia, ajenos, noFC, noBJ, cola, dominios>>

NextAC3 ==
    \/ AC3_Inicio
    \/ AC3_Paso
    \/ AC3_PasoLibre
    \/ AC3_Fin
    \/ AC3_Repetir

SpecAC3 == InitAC3 /\ [][NextAC3]_vars

\* ac3 is a sequential loop: an iteration that can be run is run
SpecAC3Justa == InitAC3 /\ [][NextAC3]_vars /\ WF_vars(NextAC3)

\* ------------------------------------------------------------------------
\* Files 19 and 20: forward_checking and backtracking_con_propagacion run
\* step by step, one frame of the stack per recursive call
\* ------------------------------------------------------------------------
EsPasoAPaso == algoritmo \in {"forward_checking", "backtracking_con_propagacion"}

InitFC ==
    /\ InstanciaInicial(NVarsFC)
    /\ EsPasoAPaso
    /\ EstadoInicial

Cima == pila[Len(pila)]

EstaCompleta(asig) == Cardinality(DOMAIN asig) = Len(orden_vars)

\* var_actual = orden_vars[len(asignacion_parcial)]
var_del_marco(marco) == orden_vars[Cardinality(DOMAIN marco.asig) + 1]

\* the frame of a call: its arguments and the iterator of its for loop
\* (the list object it walks and the position of the next value)
Marco(m, asig, d) ==
    [asig |-> asig, doms |-> d, k |-> 1,
     iter |-> IF EstaCompleta(asig) THEN 0
              ELSE m.dicts[d][orden_vars[Cardinality(DOMAIN asig) + 1]]]

Avanzar(p) == [p EXCEPT ![Len(p)].k = @ + 1]

\* __main__: the search is called on copy.deepcopy(dominio_inicial)
FC_Inicio ==
    /\ pc = "inicio" /\ EsPasoAPaso
    /\ LET t == crear_tabla(Memoria, dominios_ini)
       IN  /\ listas' = t[1].listas
           /\ dicts' = t[1].dicts
           /\ pila' = <<Marco(t[1], AsigVacia, t[2])>>
    /\ pc' = "bucle"
    /\ UNCHANGED <<instancia, ajenos, noBJ, noAC3, resultado, llamada>>

\* base case: the assignment is complete and is returned through every caller
FC_Exito ==
    /\ pc = "bucle" /\ EsPasoAPaso
    /\ Len(pila) > 0 /\ EstaCompleta(Cima.asig)
    /\ resultado' = Algun(Cima.asig)
    /\ pila' = <<>>
    /\ pc' = "hecho"
    /\ UNCHANGED <<instancia, ajenos, noBJ, noAC3, listas, dicts, llamada>>

\* one iteration of the for loop of the call on top of the stack
FC_Probar ==
    /\ pc = "bucle" /\ EsPasoAPaso
    /\ Len(pila) > 0 /\ ~EstaCompleta(Cima.asig)
    /\ Cima.k <= Len(listas[Cima.iter])
    /\ LET var == var_del_marco(Cima)
           valor == listas[Cima.iter][Cima.k]
           nueva_asignacion == Poner(Cima.asig, var, valor)
       IN  IF ~es_consistente_con_asignacion(Cima.asig, var, valor)
           THEN /\ pila' = Avanzar(pila)
                /\ UNCHANGED <<listas, dicts, llamada>>
           ELSE \E r \in {podar_dominios_mem(Memoria, Cima.doms, nueva_asignacion,
                                             var, valor)} :
                  /\ llamada' = [f |-> IF algoritmo = "forward_checking"
                                       THEN "podar_dominios"
                                       ELSE "podar_dominios_forward",
                                 dominios |-> Cima.doms,
                                 antes |-> Valor(Memoria, Cima.doms),
                                 asignacion |-> nueva_asignacion,
                                 var_actual |-> var,
                                 valor_actual |-> valor,
                                 ret |-> r.d]
                  /\ IF ~r.ok
                     THEN /\ listas' = r.m.listas /\ dicts' = r.m.dicts
                          /\ pila' = Avanzar(pila)
                     ELSE IF algoritmo = "forward_checking"
                     THEN /\ listas' = r.m.listas /\ dicts' = r.m.dicts
                          /\ pila' = Append(Avanzar(pila),
                                            Marco(r.m, nueva_asignacion, r.d))
                     ELSE \E c \in {deepcopy(r.m, r.d)} :
                          \E a \in {ac3_mem(c[1], c[2])} :
                            /\ listas' = a.m.listas /\ dicts' = a.m.dicts
                            /\ pila' = IF a.ok
                                       THEN Append(Avanzar(pila),
                                                   Marco(a.m, nueva_asignacion, c[2]))
                                       ELSE Avanzar(pila)
    /\ UNCHANGED <<instancia, ajenos, noBJ, noAC3, pc, resultado>>

\* the for loop is over: return None to the caller
FC_Fallo ==
    /\ pc = "bucle" /\ EsPasoAPaso
    /\ Len(pila) > 0 /\ ~EstaCompleta(Cima.asig)
    /\ Cima.k > Len(listas[Cima.iter])
    /\ pila' = SubSeq(pila, 1, Len(pila) - 1)
    /\ IF Len(pila) = 1
       THEN resultado' = None /\ pc' = "hecho"
       ELSE UNCHANGED <<resultado, pc>>
    /\ UNCHANGED <<instancia, ajenos, noBJ, noAC3, listas, dicts, llamada>>

NextFC ==
    \/ FC_Inicio
    \/ FC_Probar
    \/ FC_Fallo
    \/ FC_Exito

SpecFC == InitFC /\ [][NextFC]_vars

\* ------------------------------------------------------------------------
\* File 17: the binary constraint called on its own
\* ------------------------------------------------------------------------
InitRestriccion ==
    /\ \/ /\ orden_vars = Nombres(NVars)
          /\ \E E \in SUBSET Aristas(NVars) : adyacentes = TablaAdyacencia(NVars, E)
          /\ dominios_ini = [v \in Rango(Nombres(NVars)) |-> SubSeq(Colores, 1, NVals)]
       \/ EsAustralia
    /\ algoritmo = "no_conflicto_binario"
    /\ EstadoInicial

\* a call with any two variable names of the module and any two colours
NoConflictoBinario ==
    /\ pc = "inicio" /\ algoritmo = "no_conflicto_binario"
    /\ \E var_a \in Rango(variables), var_b \in Rango(variables) :
       \E val_a \in Rango(Colores), val_b \in Rango(Colores) :
          llamada' = [f |-> "no_conflicto_binario",
                      var_a |-> var_a, val_a |-> val_a,
                      var_b |-> var_b, val_b |-> val_b,
                      ret |-> no_conflicto_binario(var_a, val_a, var_b, val_b)]
    /\ pc' = "hecho"
    /\ UNCHANGED <<instancia, ajenos, noBJ, noAC3, resultado, listas, dicts, pila>>

NextRestriccion == NoConflictoBinario

SpecRestriccion == InitRestriccion /\ [][NextRestriccion]_vars

\* ------------------------------------------------------------------------
\* File 22: min_conflicts, one action per iteration of its loop
\* ------------------------------------------------------------------------
conflicto_binario(var_a, val_a, var_b, val_b) ==
    IF var_a \notin DOMAIN adyacentes \/ var_b \notin Rango(adyacentes[var_a])
    THEN FALSE
    ELSE val_a = val_b

contar_conflictos_variable(asig, var) ==
    Cardinality({k \in 1..Len(adyacentes[var]) :
        /\ adyacentes[var][k] \in DOMAIN asig
        /\ conflicto_binario(var, asig[var], adyacentes[var][k],
                             asig[adyacentes[var][k]])})

contar_conflictos_totales(asig) ==
    Cardinality({p \in (1..Len(variables_problema)) \X (1..Len(variables_problema)) :
        /\ p[1] < p[2]
        /\ conflicto_binario(variables_problema[p[1]], asig[variables_problema[p[1]]],
                             variables_problema[p[2]], asig[variables_problema[p[2]]])})

\* the variables with at least one conflict, among which one is drawn
conflictivas(asig) ==
    {var \in Rango(variables_problema) : contar_conflictos_variable(asig, var) > 0}

\* faulty variant: the first colour of the domain is returned, whatever
\* conflicts it produces
primer_color_para_variable(asig, var) ==
    <<dominios_ini[var][1],
      contar_conflictos_variable([asig EXCEPT ![var] = dominios_ini[var][1]], var)>>

\* <<color, conflicts>>: the first colour of the domain with the fewest conflicts
mejor_color_para_variable(asig, var) ==
    LET conf(k) == contar_conflictos_variable([asig EXCEPT ![var] = dominios_ini[var][k]], var)
        mejor == CHOOSE k \in 1..Len(dominios_ini[var]) :
                     /\ \A j \in 1..Len(dominios_ini[var]) : conf(k) <= conf(j)
                     /\ \A j \in 1..(k - 1) : conf(j) > conf(k)
    IN  <<dominios_ini[var][mejor], conf(mejor)>>

InitMC ==
    /\ EsAustralia
    /\ algoritmo = "min_conflicts"
    /\ EstadoCSP
    /\ asignacion_mc = AsigVacia
    /\ mejor_global = AsigVacia
    /\ mejor_global_conf = 0
    /\ iter_idx = 0
    /\ MAX_ITER \in 0..MaxIterMC
    /\ menor_conf_vista = 0
    /\ SinIDS /\ SinAE /\ SinCorte

noCSP == <<noBJ, noAC3, noFC>>

\* lines 197-199: the random complete assignment and the first record
MC_Inicio ==
    /\ pc = "inicio" /\ algoritmo = "min_conflicts"
    /\ \E a \in [Rango(variables_problema) -> Rango(Colores)] :
          /\ \A v \in DOMAIN a : a[v] \in Rango(dominios_ini[v])
          /\ asignacion_mc' = a
          /\ mejor_global' = a
          /\ mejor_global_conf' = contar_conflictos_totales(a)
          /\ menor_conf_vista' = contar_conflictos_totales(a)
    /\ iter_idx' = 0
    /\ pc' = "bucle"
    /\ UNCHANGED <<instancia, noCSP, noIDS, noAE, noCorte, resultado, MAX_ITER>>

\* lines 212-220: no conflict is left, the assignment is returned
MC_Solucion ==
    /\ pc = "bucle" /\ algoritmo = "min_conflicts"
    /\ iter_idx < MAX_ITER
    /\ contar_conflictos_totales(asignacion_mc) = 0
    /\ resultado' = Algun(asignacion_mc)
    /\ pc' = "hecho"
    /\ UNCHANGED <<instancia, noCSP, noIDS, noAE, noCorte, noMC>>

\* lines 222-237: record the best so far, draw a variable in conflict and
\* give it its best colour
MC_Reparar ==
    /\ pc = "bucle" /\ algoritmo = "min_conflicts"
    /\ iter_idx < MAX_ITER
    /\ contar_conflictos_totales(asignacion_mc) > 0
    /\ IF contar_conflictos_totales(asignacion_mc) < mejor_global_conf
       THEN /\ mejor_global' = asignacion_mc
            /\ mejor_global_conf' = contar_conflictos_totales(asignacion_mc)
       ELSE UNCHANGED <<mejor_global, mejor_global_conf>>
    /\ \E var_prob \in conflictivas(asignacion_mc) :
          asignacion_mc' = [asignacion_mc EXCEPT
                               ![var_prob] = mejor_color_para_variable(asignacion_mc,
                                                                       var_prob)[1]]
    /\ menor_conf_vista' =
           IF contar_conflictos_totales(asignacion_mc') < menor_conf_vista
           THEN contar_conflictos_totales(asignacion_mc')
           ELSE menor_conf_vista
    /\ iter_idx' = iter_idx + 1
    /\ UNCHANGED <<instancia, noCSP, noIDS, noAE, noCorte, pc, resultado, MAX_ITER>>

\* lines 240-246: the iterations are used up
MC_Agotado ==
    /\ pc = "bucle" /\ algoritmo = "min_conflicts"
    /\ iter_idx = MAX_ITER
    /\ resultado' = Algun(mejor_global)
    /\ pc' = "hecho"
    /\ UNCHANGED <<instancia, noCSP, noIDS, noAE, noCorte, noMC>>

NextMC ==
    \/ MC_Inicio
    \/ MC_Solucion
    \/ MC_Reparar
    \/ MC_Agotado

SpecMC == InitMC /\ [][NextMC]_vars

\* ------------------------------------------------------------------------
\* File 05: depth-limited search and iterative deepening
\* ------------------------------------------------------------------------
Nodos == <<"A", "B", "C", "D", "E", "F", "G", "H">>

\* the graph of the __main__ block
graph_main ==
    [n \in Rango(Nodos) |->
        CASE n = "A" -> <<"B", "C">>
          [] n = "B" -> <<"A", "D", "E">>
          [] n = "C" -> <<"A", "F">>
          [] n = "D" -> <<"B">>
          [] n = "E" -> <<"B", "F", "G">>
          [] n = "F" -> <<"C", "E">>
          [] n = "G" -> <<"E", "H">>
          [] n = "H" -> <<"G">>]

\* graph.get(u, [])
vecinos_de(u) == IF u \in DOMAIN graph THEN graph[u] ELSE <<>>

RECURSIVE rec(_, _, _, _)
RECURSIVE rec_vecinos(_, _, _, _, _, _)

\* the for loop of rec from the k-th neighbour of u; st = [visited, parent]
rec_vecinos(st, u, depth, L, k, cutoff_occurred) ==
    IF k > Len(vecinos_de(u))
    THEN [status |-> IF cutoff_occurred THEN "cutoff" ELSE "failure", st |-> st]
    ELSE LET v == vecinos_de(u)[k] IN
         IF v \in st.visited
         THEN rec_vecinos(st, u, depth, L, k + 1, cutoff_occurred)
         ELSE Unico({IF r.status = "success" THEN r
                     ELSE rec_vecinos(r.st, u, depth, L, k + 1,
                                      cutoff_occurred \/ r.status = "cutoff") :
                     r \in {rec([st EXCEPT !.parent = Poner(@, v, u)],
                                v, depth + 1, L)}})

rec(st, u, depth, L) ==
    LET st1 == [st EXCEPT !.visited = @ \cup {u}]
    IN  IF u = goal THEN [status |-> "success", st |-> st1]
        ELSE IF depth = L THEN [status |-> "cutoff", st |-> st1]
        ELSE rec_vecinos(st1, u, depth, L, 1, FALSE)

RECURSIVE camino_hasta(_, _)
\* the path rebuilt from parent, already reversed ("" is None)
camino_hasta(parent, node) ==
    IF node = "" THEN <<>> ELSE Append(camino_hasta(parent, parent[node]), node)

depth_limited_search(L) ==
    Unico({IF r.status = "success"
           THEN <<"success", camino_hasta(r.st.parent, goal)>>
           ELSE <<r.status, <<>>>> :
           r \in {rec([visited |-> {}, parent |-> Poner(AsigVacia, start, "")],
                      start, 0, L)}})

RECURSIVE iterative_deepening_desde(_)
\* the for loop of iterative_deepening_search from limit L
iterative_deepening_desde(L) ==
    IF L > L_max THEN <<"failure", <<>>>>
    ELSE Unico({IF r[1] = "success" THEN r
                ELSE IF r[1] = "failure" THEN <<"failure", <<>>>>
                ELSE iterative_deepening_desde(L + 1) :
                r \in {depth_limited_search(L)}})

iterative_deepening_search == iterative_deepening_desde(0)

\* undirected graphs on the first n nodes, neighbour lists in name order
GrafoDe(n, E) ==
    [u \in Rango(SubSeq(Nodos, 1, n)) |->
        SelectSeq(SubSeq(Nodos, 1, n),
                  LAMBDA v : \E p \in E : {Nodos[p[1]], Nodos[p[2]]} = {u, v} /\ u # v)]

InitIDS ==
    /\ \/ /\ \E E \in SUBSET Aristas(NNodos) : graph = GrafoDe(NNodos, E)
          /\ start \in Rango(SubSeq(Nodos, 1, NNodos))
          /\ goal \in Rango(SubSeq(Nodos, 1, NNodos))
          /\ L_max \in 0..MaxLimite
       \/ graph = graph_main /\ start = "A" /\ goal = "H" /\ L_max = 4
    /\ orden_vars = <<>>
    /\ adyacentes = [v \in {} |-> <<>>]
    /\ dominios_ini = [v \in {} |-> <<>>]
    /\ algoritmo = "iterative_deepening_search"
    /\ EstadoCSP
    /\ SinMC /\ SinAE /\ SinCorte

\* status, path = iterative_deepening_search(graph, start, goal, L_max)
IterativeDeepeningSearch ==
    /\ pc = "inicio" /\ algoritmo = "iterative_deepening_search"
    /\ llamada' = [f |-> "iterative_deepening_search",
                   ret |-> iterative_deepening_search]
    /\ pc' = "hecho"
    /\ UNCHANGED <<instancia, noBJ, noAC3, noMC, noIDS, noAE, noCorte,
                   resultado, listas, dicts, pila>>

NextIDS == IterativeDeepeningSearch

SpecIDS == InitIDS /\ [][NextIDS]_vars

\* ------------------------------------------------------------------------
\* File 10: a_estrella, one action per iteration of its loop
\* ------------------------------------------------------------------------
NodosAE == <<"A", "B", "C", "D", "E", "F", "G", "H", "I", "J", "K", "L", "M", "N">>

graph_estrella ==
    [n \in Rango(NodosAE) |->
        CASE n = "A" -> <<"B", "C">>
          [] n = "B" -> <<"A", "D", "E">>
          [] n = "C" -> <<"A", "F", "M">>
          [] n = "D" -> <<"B", "H", "I">>
          [] n = "E" -> <<"B", "F", "G">>
          [] n = "F" -> <<"C", "E", "K", "M">>
          [] n = "G" -> <<"E", "J">>
          [] n = "H" -> <<"D">>
          [] n = "I" -> <<"D", "J">>
          [] n = "J" -> <<"G", "I", "L">>
          [] n = "K" -> <<"F", "L">>
          [] n = "L" -> <<"K", "J">>
          [] n = "M" -> <<"C", "F", "N">>
          [] n = "N" -> <<"M">>]

\* the same graph with the edges of node n removed: n cannot be reached
graph_aislado(n) ==
    [u \in Rango(NodosAE) |->
        IF u = n THEN <<>> ELSE SelectSeq(graph_estrella[u], LAMBDA v : v # n)]

coords ==
    [n \in Rango(NodosAE) |->
        CASE n = "A" -> <<0, 1>> [] n = "B" -> <<1, 0>> [] n = "D" -> <<2, 0>>
          [] n = "H" -> <<3, 0>> [] n = "I" -> <<3, 1>> [] n = "E" -> <<1, 1>>
          [] n = "G" -> <<2, 1>> [] n = "J" -> <<3, 1>> [] n = "C" -> <<0, 2>>
          [] n = "F" -> <<1, 2>> [] n = "K" -> <<2, 2>> [] n = "L" -> <<3, 2>>
          [] n = "M" -> <<1, 3>> [] n = "N" -> <<2, 3>>]

META == "L"

fabs(x) == IF x < 0 THEN -x ELSE x

heuristica_manhattan(nodo, m) ==
    fabs(coords[nodo][1] - coords[m][1]) + fabs(coords[nodo][2] - coords[m][2])

\* tuple order of the heap: by f, then by the node name
MenorTupla(a, b) ==
    \/ a[1] < b[1]
    \/ a[1] = b[1] /\ Indice(NodosAE, a[2]) <= Indice(NodosAE, b[2])

\* faulty variant: the largest tuple is taken from the heap
cabeza_mayor(fr) == CHOOSE t \in fr : \A o \in fr : MenorTupla(o, t)

\* heapq.heappop: the smallest tuple of the heap
cabeza(fr) == CHOOSE t \in fr : \A o \in fr : MenorTupla(t, o)

RECURSIVE reconstruir_camino(_, _)
reconstruir_camino(pad, actual) ==
    IF pad[actual] = "" THEN <<actual>>
    ELSE Append(reconstruir_camino(pad, pad[actual]), actual)

RECURSIVE expandir(_, _, _)
\* the for loop over graph[actual] from its k-th neighbour; e = [g, padres, frontera]
expandir(e, actual, k) ==
    IF k > Len(graph[actual]) THEN e
    ELSE LET vecino == graph[actual][k]
             costo_vecino == e.g[actual] + 1
         IN  IF (vecino \in DOMAIN e.g /\ costo_vecino >= e.g[vecino])
                \/ vecino \in cerrados \cup {actual}
             THEN expandir(e, actual, k + 1)
             ELSE expandir([g |-> Poner(e.g, vecino, costo_vecino),
                            padres |-> Poner(e.padres, vecino, actual),
                            frontera |-> e.frontera \cup
                                {<<costo_vecino + heuristica_manhattan(vecino, meta),
                                   vecino>>}],
                           actual, k + 1)

InitAE ==
    /\ graph \in {graph_estrella, graph_aislado(META)}
    /\ inicio \in Rango(NodosAE)
    /\ meta \in Rango(NodosAE)
    /\ g = [n \in {} |-> 0]
    /\ padres = [n \in {} |-> ""]
    /\ frontera = {}
    /\ cerrados = {}
    /\ start = "" /\ goal = "" /\ L_max = 0
    /\ orden_vars = <<>>
    /\ adyacentes = [v \in {} |-> <<>>]
    /\ dominios_ini = [v \in {} |-> <<>>]
    /\ algoritmo = "a_estrella"
    /\ EstadoCSP
    /\ SinMC /\ SinCorte

noLlamadaCSP == <<noBJ, noAC3, listas, dicts, pila, resultado>>

\* lines 89-93
AE_Inicio ==
    /\ pc = "inicio" /\ algoritmo = "a_estrella"
    /\ g' = Poner(AsigVacia, inicio, 0)
    /\ padres' = Poner(AsigVacia, inicio, "")
    /\ frontera' = {<<heuristica_manhattan(inicio, meta), inicio>>}
    /\ cerrados' = {}
    /\ pc' = "bucle"
    /\ UNCHANGED <<instancia, noLlamadaCSP, noMC, noCorte, llamada,
                   graph, start, goal, L_max, inicio, meta>>

\* lines 101-109: the node taken from the heap is the goal
AE_Meta ==
    /\ pc = "bucle" /\ algoritmo = "a_estrella"
    /\ frontera # {} /\ cabeza(frontera)[2] = meta
    /\ frontera' = frontera \ {cabeza(frontera)}
    /\ llamada' = [f |-> "a_estrella",
                   ret |-> <<reconstruir_camino(padres, meta), g>>]
    /\ pc' = "hecho"
    /\ UNCHANGED <<instancia, noLlamadaCSP, noMC, noCorte,
                   graph, start, goal, L_max, inicio, meta, g, padres, cerrados>>

\* lines 101-125: the node taken from the heap is expanded
AE_Expandir ==
    /\ pc = "bucle" /\ algoritmo = "a_estrella"
    /\ frontera # {} /\ cabeza(frontera)[2] # meta
    /\ LET actual == cabeza(frontera)[2]
           e == expandir([g |-> g, padres |-> padres,
                          frontera |-> frontera \ {cabeza(frontera)}], actual, 1)
       IN  /\ g' = e.g
           /\ padres' = e.padres
           /\ frontera' = e.frontera
           /\ cerrados' = cerrados \cup {actual}
    /\ UNCHANGED <<instancia, noLlamadaCSP, noMC, noCorte, llamada, pc,
                   graph, start, goal, L_max, inicio, meta>>

\* lines 128-129: the heap is empty
AE_SinRuta ==
    /\ pc = "bucle" /\ algoritmo = "a_estrella"
    /\ frontera = {}
    /\ llamada' = [f |-> "a_estrella", ret |-> <<<<>>, g>>]
    /\ pc' = "hecho"
    /\ UNCHANGED <<instancia, noLlamadaCSP, noMC, noCorte,
                   graph, start, goal, L_max, inicio, meta, g, padres,
                   frontera, cerrados>>

NextAE ==
    \/ AE_Inicio
    \/ AE_Expandir
    \/ AE_Meta
    \/ AE_SinRuta

SpecAE == InitAE /\ [][NextAE]_vars

\* ------------------------------------------------------------------------
\* File 23: cutset conditioning
\* ------------------------------------------------------------------------
\* `if resultado:` is false for None and for an empty dict
EsVerdadero(r) == r.ok /\ DOMAIN r.asig # {}

RECURSIVE backtracking_simple(_, _)
RECURSIVE backtracking_simple_valores(_, _, _)

\* the for loop of backtracking_simple from the k-th value of vars_restantes[0]
backtracking_simple_valores(asig, vars_restantes, k) ==
    IF k > Len(dominios_ini[vars_restantes[1]]) THEN None
    ELSE LET var == vars_restantes[1]
             valor == dominios_ini[var][k]
         IN  IF es_consistente_con_asignacion(asig, var, valor)
             THEN Unico({IF EsVerdadero(r) THEN r
                         ELSE backtracking_simple_valores(asig, vars_restantes, k + 1) :
                         r \in {backtracking_simple(Poner(asig, var, valor),
                                                    Tail(vars_restantes))}})
             ELSE backtracking_simple_valores(asig, vars_restantes, k + 1)

backtracking_simple(asig, vars_restantes) ==
    IF Len(vars_restantes) = 0 THEN Algun(asig)
    ELSE backtracking_simple_valores(asig, vars_restantes, 1)

RECURSIVE producto(_)
\* list(itertools.product(*ls)): the last list varies fastest
producto(ls) ==
    IF Len(ls) = 0 THEN <<<<>>>>
    ELSE Unico({[i \in 1..(Len(ls[1]) * Len(resto)) |->
                    <<ls[1][((i - 1) \div Len(resto)) + 1]>>
                        \o resto[((i - 1) % Len(resto)) + 1]] :
                resto \in {producto(Tail(ls))}})

\* dict(zip(cutset, combinacion))
dict_zip(claves_zip, valores) ==
    [v \in Rango(claves_zip) |->
        valores[Maximo({i \in 1..Len(claves_zip) : claves_zip[i] = v})]]

\* faulty variant: any two cut variables with the same value are a conflict
corte_sin_repetidos(corte, asignacion_inicial) ==
    \A i \in 1..Len(corte) : \A j \in (i + 1)..Len(corte) :
        asignacion_inicial[corte[i]] # asignacion_inicial[corte[j]]

\* lines 141-146: no two variables of the cut are in conflict
corte_consistente(corte, asignacion_inicial) ==
    \A i \in 1..Len(corte) : \A j \in (i + 1)..Len(corte) :
        no_conflicto_binario(corte[i], asignacion_inicial[corte[i]],
                             corte[j], asignacion_inicial[corte[j]])

RECURSIVE cutset_combinaciones(_, _, _, _)
\* the for loop of cutset_conditioning from the idx-th combination
cutset_combinaciones(corte, restantes, combinaciones, idx) ==
    IF idx > Len(combinaciones) THEN None
    ELSE LET asignacion_inicial == dict_zip(corte, combinaciones[idx]) IN
         IF ~corte_consistente(corte, asignacion_inicial)
         THEN cutset_combinaciones(corte, restantes, combinaciones, idx + 1)
         ELSE Unico({IF EsVerdadero(r) THEN r
                     ELSE cutset_combinaciones(corte, restantes, combinaciones, idx + 1) :
                     r \in {backtracking_simple(asignacion_inicial, restantes)}})

cutset_conditioning(corte) ==
    cutset_combinaciones(corte,
        SelectSeq(variables_problema, LAMBDA v : v \notin Rango(corte)),
        producto([i \in 1..Len(corte) |-> dominios_ini[corte[i]]]),
        1)

\* lists of distinct elements of S, at most n long
ListasDistintas(S, n) ==
    {l \in UNION {[1..k -> S] : k \in 0..n} :
        \A i, j \in 1..Len(l) : i # j => l[i] # l[j]}

InitCorte ==
    /\ InstanciaInicial(NVarsCorte)
    /\ cutset \in ListasDistintas(Rango(orden_vars), MaxCorte)
    /\ algoritmo = "cutset_conditioning"
    /\ EstadoCSP
    /\ SinMC /\ SinIDS /\ SinAE

\* solucion = cutset_conditioning(cutset)
CutsetConditioning ==
    /\ pc = "inicio" /\ algoritmo = "cutset_conditioning"
    /\ resultado' = cutset_conditioning(cutset)
    /\ pc' = "hecho"
    /\ UNCHANGED <<instancia, noBJ, noAC3, noFC, noMC, noIDS, noAE, noCorte>>

NextCorte == CutsetConditioning

SpecCorte == InitCorte /\ [][NextCorte]_vars

\* ------------------------------------------------------------------------
\* File 18: backtracking run step by step on the dict all its calls share,
\* one frame of the stack per recursive call
\* ------------------------------------------------------------------------
InitBT ==
    /\ InstanciaInicial(NVarsBT)
    /\ algoritmo = "backtracking"
    /\ EstadoInicial

\* the frame of a call: var_actual ("" when the call is in its base case),
\* the position of its for loop, and the dict as the call found it
MarcoBT(asig) ==
    [var |-> IF Cardinality(DOMAIN asig) = Len(orden_vars) THEN ""
             ELSE orden_vars[Cardinality(DOMAIN asig) + 1],
     k |-> 1,
     entrada |-> asig]

\* faulty variant: the value is left in the dict
retirar_olvidado(asig, var) == asig

\* del asignacion_parcial[var_actual]
retirar(asig, var) == Quitar(asig, {var})

\* __main__: backtracking(asignacion_parcial={}, ...)
BT_Inicio ==
    /\ pc = "inicio" /\ algoritmo = "backtracking"
    /\ asignacion_parcial' = AsigVacia
    /\ pila' = <<MarcoBT(AsigVacia)>>
    /\ pc' = "bucle"
    /\ UNCHANGED <<instancia, ajenos, noAC3, resultado, listas, dicts, llamada,
                   conflict_set, intento_valor_idx, idx_actual>>

\* lines 111-114 and 136-137: the dict is complete and is returned through
\* every caller
BT_Exito ==
    /\ pc = "bucle" /\ algoritmo = "backtracking"
    /\ Len(pila) > 0 /\ Cima.var = ""
    /\ resultado' = Algun(asignacion_parcial)
    /\ pila' = <<>>
    /\ pc' = "hecho"
    /\ UNCHANGED <<instancia, ajenos, noAC3, noBJ, listas, dicts, llamada>>

\* lines 122-135 and 142-143: one iteration of the for loop of the call on
\* top of the stack
BT_Probar ==
    /\ pc = "bucle" /\ algoritmo = "backtracking"
    /\ Len(pila) > 0 /\ Cima.var # ""
    /\ Cima.k <= Len(dominios_ini[Cima.var])
    /\ LET valor == dominios_ini[Cima.var][Cima.k]
       IN  IF es_consistente_con_asignacion(asignacion_parcial, Cima.var, valor)
           THEN /\ asignacion_parcial' = Poner(asignacion_parcial, Cima.var, valor)
                /\ pila' = Append(Avanzar(pila),
                                  MarcoBT(Poner(asignacion_parcial, Cima.var, valor)))
           ELSE /\ pila' = Avanzar(pila)
                /\ UNCHANGED asignacion_parcial
    /\ UNCHANGED <<instancia, ajenos, noAC3, pc, resultado, listas, dicts, llamada,
                   conflict_set, intento_valor_idx, idx_actual>>

\* lines 145-147 and 139-141: the for loop is over, the call returns None and
\* its caller takes its own value out of the dict
BT_Fallo ==
    /\ pc = "bucle" /\ algoritmo = "backtracking"
    /\ Len(pila) > 0 /\ Cima.var # ""
    /\ Cima.k > Len(dominios_ini[Cima.var])
    /\ llamada' = [f |-> "backtracking", nivel |-> Len(pila) - 1,
                   entrada |-> Cima.entrada, al_volver |-> asignacion_parcial]
    /\ pila' = SubSeq(pila, 1, Len(pila) - 1)
    /\ IF Len(pila) = 1
       THEN /\ resultado' = None /\ pc' = "hecho"
            /\ UNCHANGED asignacion_parcial
       ELSE /\ asignacion_parcial' = retirar(asignacion_parcial, pila[Len(pila) - 1].var)
            /\ UNCHANGED <<resultado, pc>>
    /\ UNCHANGED <<instancia, ajenos, noAC3, listas, dicts,
                   conflict_set, intento_valor_idx, idx_actual>>

NextBT ==
    \/ BT_Inicio
    \/ BT_Probar
    \/ BT_Fallo
    \/ BT_Exito

SpecBT == InitBT /\ [][NextBT]_vars

\* ========================================================================
\* Properties
\* ========================================================================
Hecho(a) == pc = "hecho" /\ algoritmo = a

\* no two adjacent variables of the assignment share a value
SinVecinosIguales(a) ==
    \A u \in DOMAIN a : \A v \in DOMAIN a :
        v \in Rango(adyacentes[u]) => a[u] # a[v]

Completa(a) == DOMAIN a = Rango(orden_vars)

\* the problem has a solution: a complete assignment within the domains
ExisteSolucion ==
    \E a \in [Rango(orden_vars) -> Rango(Colores)] :
        /\ \A v \in Rango(orden_vars) : a[v] \in Rango(dominios_ini[v])
        /\ SinVecinosIguales(a)

HayAristas == \E v \in Rango(orden_vars) : Len(adyacentes[v]) >= 2

\* C1: whenever backtracking, forward_checking or backtracking_con_propagacion
\* returns an assignment, adjacent variables have different values in it.
C1_SolucionRespetaAdyacencia ==
    (pc = "hecho" /\ algoritmo \in Buscadores \ {"backjumping"} /\ resultado.ok)
        => SinVecinosIguales(resultado.asig)

C1_Witness ==
    /\ Hecho("backtracking_con_propagacion") /\ resultado.ok
    /\ HayAristas /\ ~EsAustralia
    /\ \E v \in Rango(orden_vars) : resultado.asig[v] # dominios_ini[v][1]

\* C2: whenever backjumping returns an assignment, its keys are exactly the
\* variables of orden_vars.
C2_BackjumpingAsignaTodas ==
    (Hecho("backjumping") /\ resultado.ok) => Completa(resultado.asig)

\* C3: whenever backjumping returns an assignment, the adjacent variables
\* present in it have different values.
C3_BackjumpingRespetaAdyacencia ==
    (Hecho("backjumping") /\ resultado.ok) => SinVecinosIguales(resultado.asig)

C3_Witness ==
    /\ Hecho("backjumping") /\ resultado.ok /\ ~EsAustralia
    /\ \E u \in DOMAIN resultado.asig :
          /\ Rango(adyacentes[u]) \cap DOMAIN resultado.asig # {}
          /\ conflict_set[u] # {}

\* C4: backjumping returns a solution exactly when backtracking does, and
\* None exactly when backtracking returns None.
C4_BackjumpingEquivaleABacktracking ==
    Hecho("backjumping") =>
        (resultado.ok <=> backtracking(AsigVacia, orden_vars, dominios_ini).ok)

\* C5: on the triangle with a shared 2-colour domain every search variant
\* returns None.
C5_TrianguloSinSolucion ==
    EsTriangulo => <>(pc = "hecho" /\ ~resultado.ok)

\* the variable with no value left is the deepest one of its own conflict set
AutoSalto ==
    /\ EnVariable
    /\ intento_valor_idx[var_actual] >= Len(dominios_ini[var_actual])
    /\ salto_idx = idx_actual

\* Once backjumping jumps to the variable it is on, every later step does
\* the same: neither return is reached from there.
BJ_AutoSaltoPermanente == [][AutoSalto => AutoSalto']_vars

\* the state the run of backjumping on the triangle gets to (reachable)
BJ_TrianguloEnAutoSalto == EsTriangulo /\ AutoSalto

\* C6: backtracking returns a complete valid assignment whenever the problem
\* has a solution, and None only when it has none.
C6_BacktrackingCompleto ==
    Hecho("backtracking") =>
        /\ resultado.ok <=> ExisteSolucion
        /\ resultado.ok => Completa(resultado.asig) /\ SinVecinosIguales(resultado.asig)

C6_Witness ==
    /\ Hecho("backtracking") /\ resultado.ok /\ ~EsAustralia
    /\ \E u \in Rango(orden_vars) : \E v \in Rango(adyacentes[u]) :
          resultado.asig[u] # dominios_ini[u][1] /\ resultado.asig[v] # dominios_ini[v][1]

\* C7: on the Australia instance each of the four solvers terminates and
\* returns an assignment of all 7 variables with no two adjacent regions
\* of the same colour.
C7_AustraliaResuelta ==
    EsAustralia =>
        /\ <>(pc = "hecho")
        /\ [](pc = "hecho" =>
                 /\ resultado.ok
                 /\ Completa(resultado.asig)
                 /\ Cardinality(DOMAIN resultado.asig) = 7
                 /\ SinVecinosIguales(resultado.asig))

C7_Witness ==
    EsAustralia /\ Hecho("backjumping") /\ resultado.ok /\ idx_actual = 7

EsAC3 == algoritmo \in {"ac3", "ac3_orden_libre"}

\* C8: when ac3 returned True, running it again on the resulting domains
\* removes no value and returns True again.
C8_AC3Idempotente ==
    (EsAC3 /\ ronda = 2) =>
        /\ dominios = dom_previo
        /\ pc = "hecho" => resultado.ok

C8_Witness ==
    /\ Hecho("ac3") /\ ronda = 2 /\ resultado.ok
    /\ dom_previo # dominios_ini
    /\ \A v \in Rango(orden_vars) : Len(dominios_ini[v]) > 0

\* C9: whatever order the arcs are taken from the queue, ac3 ends with the
\* outcome of the FIFO order and, on success, with the same domains.
C9_AC3Confluente ==
    (Hecho("ac3_orden_libre") /\ ronda = 1) =>
        /\ resultado.ok = ac3(dominios_ini).ok
        /\ resultado.ok => dominios = ac3(dominios_ini).doms

C9_Witness ==
    /\ Hecho("ac3_orden_libre") /\ ronda = 1 /\ resultado.ok
    /\ \E v \in Rango(orden_vars) : Len(dominios[v]) < Len(dominios_ini[v])
    /\ \E v \in Rango(orden_vars) : Len(adyacentes[v]) = 2

\* C10: when ac3 returns True every directed arc (Xi, Xj) is arc-consistent:
\* each value left in domain[Xi] has a different value in domain[Xj].
C10_ArcosConsistentes ==
    (pc = "hecho" /\ EsAC3 /\ resultado.ok) =>
        \A xi \in Rango(orden_vars) : \A xj \in Rango(adyacentes[xi]) :
            \A v \in Rango(dominios[xi]) : \E w \in Rango(dominios[xj]) : w # v

C10_Witness ==
    /\ Hecho("ac3") /\ ronda = 1 /\ resultado.ok
    /\ \E xi \in Rango(orden_vars) :
          /\ Len(adyacentes[xi]) = 2
          /\ Len(dominios[xi]) = 1 /\ Len(dominios_ini[xi]) = 2

\* C11: ac3 on the Australia instance with the full 3-colour domains returns
\* True and prunes nothing: every domain is still its 3 initial colours.
C11_AC3AustraliaSinPoda ==
    (EsAustralia /\ algoritmo = "ac3" /\ ronda = 1) =>
        /\ dominios = dominio_base
        /\ pc = "hecho" => resultado.ok

C11_Witness ==
    /\ EsAustralia /\ Hecho("ac3") /\ ronda = 1 /\ resultado.ok
    /\ Len(cola) = 0
    /\ \A v \in Rango(variables) : Len(dominios[v]) = 3

\* the step-by-step run returns what the recursive function returns
FC_PasoAPasoIgualRecursivo ==
    /\ Hecho("forward_checking") =>
           resultado = forward_checking(AsigVacia, orden_vars, dominios_ini)
    /\ Hecho("backtracking_con_propagacion") =>
           resultado = backtracking_con_propagacion(AsigVacia, orden_vars, dominios_ini)

EsPoda == llamada.f \in {"podar_dominios", "podar_dominios_forward"}

\* C12: after every call of podar_dominios and podar_dominios_forward,
\* whether it returned a table or None, the table the caller passed holds
\* the same domains as before the call.
C12_CopiaAlEscribir ==
    EsPoda => Valor(Memoria, llamada.dominios) = llamada.antes

C12_Witness ==
    /\ llamada.f = "podar_dominios_forward" /\ llamada.ret = 0
    /\ Len(pila) >= 1 /\ Cima.k = 2
    /\ \E v \in Rango(adyacentes[llamada.var_actual]) \ DOMAIN llamada.asignacion :
          Len(llamada.antes[v]) = 1
    /\ Len(llamada.antes[llamada.var_actual]) = 2

\* forward_checking is about to try X = c where X and an unassigned
\* neighbour Y both have the domain [c]
CasoDominiosUnitariosIguales ==
    /\ pc = "bucle" /\ algoritmo = "forward_checking"
    /\ Len(pila) > 0 /\ ~EstaCompleta(Cima.asig)
    /\ Cima.k = 1 /\ Len(listas[Cima.iter]) >= 1
    /\ Valor(Memoria, Cima.doms)[var_del_marco(Cima)] = <<listas[Cima.iter][1]>>
    /\ \E y \in Rango(adyacentes[var_del_marco(Cima)]) \ DOMAIN Cima.asig :
          Valor(Memoria, Cima.doms)[y] = <<listas[Cima.iter][1]>>

\* C13: when adjacent X and Y both have the one-value domain [c] and Y is
\* unassigned, trying X = c makes podar_dominios return None and
\* forward_checking goes on to the next value without a recursive call.
C13_FalloEnLaAsignacion ==
    [][CasoDominiosUnitariosIguales =>
          /\ llamada'.f = "podar_dominios"
          /\ llamada'.asignacion =
                 Poner(Cima.asig, var_del_marco(Cima), listas[Cima.iter][1])
          /\ llamada'.ret = 0
          /\ pila' = Avanzar(pila)]_vars

C13_Witness ==
    /\ algoritmo = "forward_checking" /\ llamada.f = "podar_dominios"
    /\ llamada.ret = 0
    /\ llamada.antes[llamada.var_actual] = <<llamada.valor_actual>>
    /\ \E y \in Rango(adyacentes[llamada.var_actual]) \ DOMAIN llamada.asignacion :
          llamada.antes[y] = <<llamada.valor_actual>>
    /\ Len(pila) >= 1 /\ Cima.asig = Quitar(llamada.asignacion, {llamada.var_actual})

\* C14: the table a forward-check call of forward_checking returns has, for
\* every variable, a subset of the domain the variable had before the call.
C14_DominiosSoloSeReducen ==
    (llamada.f = "podar_dominios" /\ llamada.ret # 0) =>
        \A v \in DOMAIN llamada.antes :
            Rango(Valor(Memoria, llamada.ret)[v]) \subseteq Rango(llamada.antes[v])

C14_Witness ==
    /\ llamada.f = "podar_dominios" /\ llamada.ret # 0
    /\ Len(pila) >= 3
    /\ \E v \in DOMAIN llamada.antes \ DOMAIN llamada.asignacion :
          /\ Len(Valor(Memoria, llamada.ret)[v]) = 1
          /\ Len(llamada.antes[v]) = 2

\* the adjacency table is asymmetric or some initial domain is empty
EsMalformado ==
    \/ \E u \in DOMAIN adyacentes : \E v \in Rango(adyacentes[u]) :
          v \notin DOMAIN adyacentes \/ u \notin Rango(adyacentes[v])
    \/ \E v \in Rango(orden_vars) : Len(dominios_ini[v]) = 0

\* C15: on a malformed problem no solver tries or assigns a value: the
\* search never begins and no assignment is returned.
C15_MalformadoRechazado ==
    (EsMalformado /\ algoritmo \in Buscadores) =>
        /\ asignacion_parcial = AsigVacia
        /\ \A v \in DOMAIN intento_valor_idx : intento_valor_idx[v] = 0
        /\ pc = "hecho" => ~resultado.ok

\* the two variables are neighbours on the map (either list names the other)
SonVecinas(u, v) ==
    \/ u \in DOMAIN adyacentes /\ v \in Rango(adyacentes[u])
    \/ v \in DOMAIN adyacentes /\ u \in Rango(adyacentes[v])

\* C16: no_conflicto_binario returns True for every pair of variables that
\* are not adjacent, for adjacent variables True exactly when the two values
\* differ, and the call changes nothing but its return value.
C16_RestriccionBinaria ==
    [][llamada'.f = "no_conflicto_binario" =>
          /\ llamada'.ret = (SonVecinas(llamada'.var_a, llamada'.var_b)
                                 => llamada'.val_a # llamada'.val_b)
          /\ UNCHANGED <<adyacentes, dominios_ini, orden_vars, resultado>>]_vars

C16_Witness ==
    /\ llamada.f = "no_conflicto_binario" /\ ~llamada.ret
    /\ llamada.val_a = "AZUL"
    /\ ~EsAustralia /\ Len(adyacentes[llamada.var_b]) >= 2

\* C17: when min_conflicts uses up MAX_ITER iterations, the assignment it
\* returns has the fewest total conflicts of all the assignments the search
\* held: the initial one and the one after every reassignment, the last too.
C17_DevuelveLaMejorVista ==
    (Hecho("min_conflicts") /\ iter_idx = MAX_ITER) =>
        contar_conflictos_totales(resultado.asig) = menor_conf_vista

RECURSIVE Alcanzables(_, _)
\* the nodes at most k edges away from the nodes of S
Alcanzables(S, k) ==
    IF k = 0 THEN S
    ELSE Alcanzables(S \cup UNION {Rango(vecinos_de(u)) : u \in S}, k - 1)

\* number of edges of a shortest path from a to b (it exists)
DistanciaMinima(a, b) ==
    CHOOSE k \in 0..Cardinality(DOMAIN graph) :
        /\ b \in Alcanzables({a}, k)
        /\ \A j \in 0..(k - 1) : b \notin Alcanzables({a}, j)

EsCamino(path, a, b) ==
    /\ Len(path) >= 1 /\ path[1] = a /\ path[Len(path)] = b
    /\ \A i \in 1..(Len(path) - 1) : path[i + 1] \in Rango(vecinos_de(path[i]))

\* C18: whenever iterative_deepening_search returns ('success', path), path
\* is a path from start to goal with as few edges as any (the length
\* breadth-first search finds).
C18_CaminoMasCorto ==
    (llamada.f = "iterative_deepening_search" /\ llamada.ret[1] = "success") =>
        /\ EsCamino(llamada.ret[2], start, goal)
        /\ Len(llamada.ret[2]) - 1 = DistanciaMinima(start, goal)

\* C19: for every start node of the 14-node graph and the goal L, a_estrella
\* returns a route from the start to L with as many edges as the
\* shortest-path distance, and g['L'] is that distance.
C19_RutaOptimaHastaL ==
    (Hecho("a_estrella") /\ graph = graph_estrella /\ meta = META) =>
        /\ llamada.f = "a_estrella"
        /\ EsCamino(llamada.ret[1], inicio, META)
        /\ Len(llamada.ret[1]) - 1 = DistanciaMinima(inicio, META)
        /\ llamada.ret[2][META] = DistanciaMinima(inicio, META)

C19_Witness ==
    /\ Hecho("a_estrella") /\ graph = graph_estrella /\ meta = META /\ inicio = "B"
    /\ llamada.ret[1] = <<"B", "D", "I", "J", "L">>
    /\ llamada.ret[2][META] = 4
    /\ Cardinality(cerrados) >= 4

\* C20: for every cutset of distinct variables of the problem,
\* cutset_conditioning returns a complete assignment with no two adjacent
\* variables equal whenever the problem has a solution, and returns None
\* only when no combination of cutset values extends to a solution.
C20_CorteCompleto ==
    Hecho("cutset_conditioning") =>
        /\ ExisteSolucion =>
               /\ resultado.ok
               /\ Completa(resultado.asig)
               /\ SinVecinosIguales(resultado.asig)
        /\ ~resultado.ok => ~ExisteSolucion

C20_Witness ==
    /\ Hecho("cutset_conditioning") /\ resultado.ok /\ ~EsAustralia
    /\ Len(cutset) = 2
    /\ cutset[2] \in Rango(adyacentes[cutset[1]])
    /\ resultado.asig[cutset[1]] # dominios_ini[cutset[1]][1]
    /\ \E v \in Rango(orden_vars) \ Rango(cutset) :
          Len(adyacentes[v]) >= 1 /\ resultado.asig[v] # dominios_ini[v][1]

\* C21: whenever the main loop of backjumping is on the variable at index i,
\* no variable with an index greater than i is in asignacion_parcial (a jump
\* unassigns every variable between its target and the depth it left).
C21_SinAsignadasPosteriores ==
    EnVariable =>
        \A v \in DOMAIN asignacion_parcial : Indice(orden_vars, v) <= idx_actual

\* conflict_set[X] holds only variables that come before X in orden_vars
ConflictosSoloAnteriores ==
    \A x \in DOMAIN conflict_set : \A v \in conflict_set[x] :
        v \in Rango(orden_vars) /\ Indice(orden_vars, v) < Indice(orden_vars, x)

\* C22: in every state of backjumping conflict_set[X] holds only variables
\* that come before X in orden_vars, and at every jump salto_idx is strictly
\* smaller than idx_actual.
C22_SaltoHaciaAncestro ==
    algoritmo = "backjumping" =>
        /\ ConflictosSoloAnteriores
        /\ (EnVariable /\ intento_valor_idx[var_actual] >= Len(dominios_ini[var_actual]))
               => salto_idx < idx_actual

\* C23: backjumping terminates on every finite instance: its main loop
\* eventually reaches the success return or the no-solution return.
C23_BackjumpingTermina ==
    algoritmo = "backjumping" => <>(pc = "hecho")

\* two adjacent variables with the same one-colour domain, the rest free
EsParUnitario ==
    /\ Rango(adyacentes[orden_vars[1]]) = {orden_vars[2]}
    /\ dominios_ini[orden_vars[1]] = <<"ROJO">>
    /\ dominios_ini[orden_vars[2]] = <<"ROJO">>

\* the run of backjumping on that instance gets to the self-jump (reachable)
BJ_ParUnitarioEnAutoSalto == EsParUnitario /\ AutoSalto /\ idx_actual = 0

\* the main loop is on a variable with no value left: its next step is a jump
VaASaltar ==
    EnVariable /\ intento_valor_idx[var_actual] >= Len(dominios_ini[var_actual])

\* C24: after every jump of backjumping each variable after the jump target
\* has an empty conflict set and value-trial index 0, and the jump target
\* keeps its merged conflict set and has its index advanced by exactly one.
C24_ReinicioTrasSalto ==
    [][VaASaltar =>
          /\ \A i \in (salto_idx + 1)..(Len(orden_vars) - 1) :
                /\ conflict_set'[orden_vars[i + 1]] = {}
                /\ intento_valor_idx'[orden_vars[i + 1]] = 0
          /\ salto_idx >= 0 =>
                /\ conflict_set'[orden_vars[salto_idx + 1]] =
                       conflict_set[orden_vars[salto_idx + 1]] \cup conflict_set[var_actual]
                /\ intento_valor_idx'[orden_vars[salto_idx + 1]] =
                       intento_valor_idx[orden_vars[salto_idx + 1]] + 1]_vars

\* ac3 is about to take the arc at the head of its queue
AC3_PorRevisar == pc = "bucle" /\ algoritmo = "ac3" /\ Len(cola) > 0

\* C25: in ac3, when revising (Xi, Xj) removes a value of domain[Xi] and
\* leaves it non-empty, the arc (Xk, Xi) is appended to the queue for every
\* neighbour Xk of Xi other than Xj, and only those; when the revision
\* removes nothing, no arc is appended.
C25_ReencolarTrasPoda ==
    [][AC3_PorRevisar =>
          LET xi == cola[1][1]
              xj == cola[1][2]
              n == Len(cola) - 1
              anadidos == SubSeq(cola', n + 1, Len(cola'))
          IN  /\ Len(cola') >= n
              /\ SubSeq(cola', 1, n) = Tail(cola)
              /\ (dominios'[xi] # dominios[xi] /\ Len(dominios'[xi]) > 0) =>
                     /\ Rango(anadidos) =
                            {<<xk, xi>> : xk \in Rango(adyacentes[xi]) \ {xj}}
                     /\ Len(anadidos) = Cardinality(Rango(adyacentes[xi]) \ {xj})
              /\ dominios' = dominios => anadidos = <<>>]_vars

C25_Witness ==
    /\ pc = "bucle" /\ algoritmo = "ac3" /\ ronda = 1
    /\ Len(cola) = Len(cola_inicial) /\ Len(cola) >= 4
    /\ dominios # dominios_ini
    /\ \A v \in Rango(orden_vars) : Len(dominios[v]) > 0
    /\ Len(dominios[cola[Len(cola)][2]]) < Len(dominios_ini[cola[Len(cola)][2]])

\* C26: ac3 terminates on every finite instance: it returns False as soon as
\* a revision leaves some domain empty, and otherwise the arc queue
\* eventually becomes empty and it returns True.
C26_AC3Termina ==
    /\ (EsAC3 /\ pc = "bucle") ~> (pc = "hecho")
    /\ [][(EsAC3 /\ pc = "bucle"
             /\ \E v \in DOMAIN dominios :
                   dominios'[v] # dominios[v] /\ Len(dominios'[v]) = 0)
            => (pc' = "hecho" /\ ~resultado'.ok)]_vars
    /\ []((EsAC3 /\ pc = "hecho" /\ resultado.ok) => Len(cola) = 0)

C26_Witness ==
    /\ Hecho("ac3_orden_libre") /\ ronda = 1 /\ ~resultado.ok
    /\ Len(cola) > 0
    /\ \A v \in Rango(orden_vars) : Len(dominios_ini[v]) > 0
    /\ \E v \in Rango(orden_vars) : Len(dominios[v]) = 0

\* C27: with symmetric adjacency, from the empty assignment and with the same
\* variable order and domain order, forward_checking and
\* backtracking_con_propagacion return exactly what backtracking returns
\* (the same assignment, or None when it returns None).
C27_PodaIgualABacktracking ==
    (pc = "hecho" /\ algoritmo \in {"forward_checking", "backtracking_con_propagacion"})
        => resultado = backtracking(AsigVacia, orden_vars, dominios_ini)

C27_Witness ==
    /\ Hecho("forward_checking") /\ resultado.ok /\ ~EsAustralia
    /\ resultado.asig = backtracking(AsigVacia, orden_vars, dominios_ini).asig
    /\ \E u \in Rango(orden_vars) :
          /\ Len(adyacentes[u]) >= 2
          /\ Len(dominios_ini[u]) = 2
          /\ resultado.asig[u] = dominios_ini[u][2]

\* the step-by-step run of backtracking returns what the recursive function
\* returns
BT_PasoAPasoIgualRecursivo ==
    Hecho("backtracking") =>
        resultado = backtracking(AsigVacia, orden_vars, dominios_ini)

\* C28: while a call of backtracking at recursion depth d runs, the shared
\* dict holds exactly the first d variables of the order, and whenever a
\* call returns None the dict holds exactly the entries it held when that
\* call started.
C28_BacktrackingDeshace ==
    /\ (pc = "bucle" /\ algoritmo = "backtracking" /\ Len(pila) > 0) =>
           DOMAIN asignacion_parcial = Rango(SubSeq(orden_vars, 1, Len(pila) - 1))
    /\ llamada.f = "backtracking" => llamada.al_volver = llamada.entrada
    /\ (Hecho("backtracking") /\ ~resultado.ok) => asignacion_parcial = AsigVacia

C28_Witness ==
    /\ pc = "bucle" /\ algoritmo = "backtracking" /\ ~EsAustralia
    /\ llamada.f = "backtracking" /\ llamada.nivel = 2
    /\ Len(pila) = 2 /\ Cima.k = 2
    /\ Cardinality(DOMAIN asignacion_parcial) = 1
    /\ Cardinality(DOMAIN llamada.entrada) = 2

\* forward_checking is running the for loop of the call on top of the stack
FC_EnBucle ==
    /\ pc = "bucle" /\ algoritmo = "forward_checking"
    /\ Len(pila) > 0 /\ ~EstaCompleta(Cima.asig)

\* C29: in forward_checking started from the empty assignment with symmetric
\* adjacency, every value still in the current domain of the variable being
\* assigned is consistent with all the assigned variables: the
\* local-conflict branch is never taken.
C29_SinConflictoLocal ==
    FC_EnBucle =>
        \A n \in 1..Len(listas[Cima.iter]) :
            es_consistente_con_asignacion(Cima.asig, var_del_marco(Cima),
                                          listas[Cima.iter][n])

C29_Witness ==
    /\ FC_EnBucle /\ ~EsAustralia
    /\ Len(pila) = 3 /\ Cima.k = 1
    /\ Len(listas[Cima.iter]) = 1
    /\ Len(dominios_ini[var_del_marco(Cima)]) = 2
    /\ Rango(adyacentes[var_del_marco(Cima)]) = DOMAIN Cima.asig
    /\ Cima.asig[orden_vars[1]] = Cima.asig[orden_vars[2]]

\* C30: in min_conflicts, whichever conflicted variable is drawn, giving it
\* the colour returned by mejor_color_para_variable never increases
\* contar_conflictos_totales, and every assignment the loop holds is complete
\* (one colour per variable).
C30_RepararNoEmpeora ==
    /\ [][(algoritmo = "min_conflicts" /\ pc = "bucle" /\ iter_idx' = iter_idx + 1) =>
             /\ contar_conflictos_totales(asignacion_mc')
                    <= contar_conflictos_totales(asignacion_mc)
             /\ DOMAIN asignacion_mc' = Rango(variables)]_vars
    /\ []((algoritmo = "min_conflicts" /\ pc # "inicio") =>
             /\ DOMAIN asignacion_mc = Rango(variables)
             /\ DOMAIN mejor_global = Rango(variables)
             /\ \A v \in Rango(variables) : asignacion_mc[v] \in Rango(Colores))

C30_Witness ==
    /\ algoritmo = "min_conflicts" /\ pc = "bucle" /\ iter_idx = 2
    /\ contar_conflictos_totales(asignacion_mc) + 2 <= mejor_global_conf
    /\ Cardinality({v \in Rango(variables) : asignacion_mc[v] # mejor_global[v]}) = 1

====
